---- MODULE Spec2Model ----
(***************************************************************************)
(* Model of the duplicate-file detector: the grouping engine of            *)
(* src/copies.rs and src/duplicates.rs, the fingerprint sampler            *)
(* get_fingerprint, and get_common_prefix of src/paths.rs.                 *)
(*                                                                         *)
(* Three specifications share the variables:                               *)
(*   Spec             a driver calls get_copies, get_duplicates,           *)
(*                    get_duplicates_hashed and get_copies_hashed on one   *)
(*                    path list over one unchanging file system;           *)
(*   SpecFingerprint  get_fingerprint, statement by statement, on one file;*)
(*   SpecPrefix       get_common_prefix, one loop iteration per step.      *)
(***************************************************************************)
EXTENDS Integers, Sequences, FiniteSets, TLC

VARIABLES
    fs,                 \* the file system: path -> file
    paths,              \* the path list handed to the four entry points
    pc,                 \* the driver's position
    copies,             \* result of get_copies(paths)
    copies_hashed,      \* result of get_copies_hashed(paths)
    duplicates,         \* result of get_duplicates(paths)
    duplicates_hashed,  \* result of get_duplicates_hashed(paths)
    hasher,             \* the (hash of contents) function DefaultHasher computed
    overflow_checks,    \* whether the build traps arithmetic overflow (debug) or wraps (release)
    \* get_fingerprint, statement by statement
    fp_file,            \* the file at `path`
    fp_pc,              \* position in get_fingerprint
    fp_len,             \* len
    fp_pos,             \* the cursor of `file`
    fp_k,               \* iterations of `for _ in 0..steps` completed
    fp_contents,        \* contents
    fp_i,               \* iterations of the packing loop completed
    fp_key,             \* key
    fp_result,          \* what the call returned
    fp_reads,           \* history: the offset each read_exact started at
    fp_sampled,         \* history: the offset of each byte pushed to contents
    fp_bit_offsets,     \* history: the bit offset each byte was OR-ed in at
    \* get_common_prefix, one iteration of the outer loop per step
    cp_paths,           \* paths, each a sequence of components
    cp_pc,              \* position in get_common_prefix
    cp_idx,             \* index (from 1) of the path the outer loop is at
    last_match,         \* last_match
    cp_result           \* the PathBuf returned

engine_vars == <<fs, paths, pc, copies, copies_hashed, duplicates,
                 duplicates_hashed, hasher>>

fp_vars == <<fp_file, fp_pc, fp_len, fp_pos, fp_k, fp_contents, fp_i, fp_key,
             fp_result, fp_reads, fp_sampled, fp_bit_offsets>>

cp_vars == <<cp_paths, cp_pc, cp_idx, last_match, cp_result>>

vars == <<engine_vars, overflow_checks, fp_vars, cp_vars>>

(***************************************************************************)
(* Bounds of the model.                                                    *)
(***************************************************************************)
MaxPaths == 3
\* get_fingerprint is run on every length up to PAGE_SIZE + MaxLargeExtra
MaxLargeExtra == 40
\* get_common_prefix: paths of at most MaxDepth components, at most MaxList paths
MaxDepth == 2
MaxList == 3

(***************************************************************************)
(* Program constants.                                                      *)
(***************************************************************************)
PAGE_SIZE == 4096
SMALL_PARTS == 8
STEPS == 4
SAMPLE_WIDTH == 8
WORD_BYTES == 8

Max(a, b) == IF a >= b THEN a ELSE b

(***************************************************************************)
(* Files.  A file's contents are a byte string, kept sparsely: its length, *)
(* the byte every offset holds unless patched, and the patched offsets.    *)
(* Every contents value below is canonical (no patch equals the fill, no   *)
(* patch lies outside the file), so two contents are the same byte string  *)
(* exactly when the records are equal.                                     *)
(***************************************************************************)
Bytes(len, fill, patch) == [len |-> len, fill |-> fill, patch |-> patch]

ByteAt(c, i) == IF i \in DOMAIN c.patch THEN c.patch[i] ELSE c.fill

NoPatch == <<>>

Empty == Bytes(0, 0, NoPatch)
\* 9 bytes: sampled at offsets 0..8, nine samples
Nine_a == Bytes(9, 0, 0 :> 1)
Nine_b == Bytes(9, 0, 8 :> 1)
\* 16 bytes: sampled at the even offsets, offset 15 is never looked at
Sixteen_a == Bytes(16, 7, NoPatch)
Sixteen_b == Bytes(16, 7, 15 :> 1)
\* more than a page: sampled with seeks
Large_a == Bytes(4104, 3, NoPatch)

Contents == {Empty, Nine_a, Nine_b, Sixteen_a, Sixteen_b, Large_a}

\* status "ok": opens and reads; "missing": open fails; "unreadable": opens
\* (and has metadata) but every read fails, as a directory does.
File(status, c) == [status |-> status, content |-> c]

Files == {File("ok", c) : c \in Contents}
            \cup {File("missing", Empty), File("unreadable", Empty)}

PathNames == {"a", "b", "c"}

PathLists == UNION {[1..n -> PathNames] : n \in 0..MaxPaths}

(***************************************************************************)
(* std::fs::read and the results the entry points return.                  *)
(***************************************************************************)
Readable(p) == fs[p].status = "ok"

\* fs::read(path): Ok(contents) or Err
fs_read(p) == IF Readable(p) THEN [ok |-> TRUE, contents |-> fs[p].content]
              ELSE [ok |-> FALSE]

\* (Vec<Vec<PathBuf>>, Vec<PathIoError>): an error is kept as its path
Returned(groups, errors) == [tag |-> "returned", groups |-> groups, errors |-> errors]
\* Vec<Vec<PathBuf>>, as get_duplicates and get_duplicates_hashed return it
ReturnedGroups(groups) == [tag |-> "returned", groups |-> groups]
NotCalled == [tag |-> "none"]
Panicked == [tag |-> "panic"]

(***************************************************************************)
(* HashMap<K, Vec<PathBuf>>: a sequence of entries.  The order in which a  *)
(* HashMap yields its values is unspecified; the model yields them in the  *)
(* order of first insertion, and no property below looks at that order.    *)
(***************************************************************************)
HasKey(map, k) == \E i \in 1..Len(map) : map[i].key = k

\* map.entry(k).or_insert(vec![]).push(p)
EntryPush(map, k, p) ==
    IF HasKey(map, k)
    THEN [i \in 1..Len(map) |->
            IF map[i].key = k THEN [map[i] EXCEPT !.val = Append(@, p)] ELSE map[i]]
    ELSE Append(map, [key |-> k, val |-> <<p>>])

\* map.values()
Values(map) == [i \in 1..Len(map) |-> map[i].val]

\* mutant of CopiesLoop: a failed read is skipped, not recorded
RECURSIVE CopiesLoopSilent(_, _, _, _)
CopiesLoopSilent(ps, i, map, errors) ==
    IF i > Len(ps) THEN Returned(Values(map), errors)
    ELSE LET r == fs_read(ps[i]) IN
         IF r.ok THEN CopiesLoopSilent(ps, i + 1, EntryPush(map, r.contents, ps[i]), errors)
         ELSE CopiesLoopSilent(ps, i + 1, map, errors)

RECURSIVE CopiesLoop(_, _, _, _)
CopiesLoop(ps, i, map, errors) ==
    IF i > Len(ps) THEN Returned(Values(map), errors)
    ELSE LET r == fs_read(ps[i]) IN
         IF r.ok THEN CopiesLoop(ps, i + 1, EntryPush(map, r.contents, ps[i]), errors)
         ELSE CopiesLoop(ps, i + 1, map, Append(errors, ps[i]))

get_copies(ps) ==
    IF Len(ps) = 1 THEN Returned(<< <<ps[1]>> >>, <<>>)
    ELSE IF Len(ps) = 2 THEN
        LET a == ps[1]
            b == ps[2]
            ra == fs_read(a)
            rb == fs_read(b)
        IN  IF ra.ok /\ rb.ok THEN
                IF ra.contents = rb.contents
                THEN Returned(<< <<a, b>> >>, <<>>)
                ELSE Returned(<< <<a>>, <<b>> >>, <<>>)
            ELSE IF ra.ok THEN Returned(<< <<a>> >>, <<b>>)
            ELSE IF rb.ok THEN Returned(<< <<b>> >>, <<a>>)
            ELSE Returned(<<>>, <<a, b>>)
    ELSE CopiesLoop(ps, 1, <<>>, <<>>)

(***************************************************************************)
(* get_duplicates and get_duplicates_hashed (src/duplicates.rs).           *)
(***************************************************************************)
\* mutant of LongerThanOne: the filter keeps singletons
NotEmpty(candidates) == Len(candidates) >= 1

\* .filter(|candidates| candidates.len() > 1)
LongerThanOne(candidates) == Len(candidates) > 1

RECURSIVE DuplicatesLoop(_, _, _)
DuplicatesLoop(ps, i, map) ==
    IF i > Len(ps) THEN map
    ELSE LET r == fs_read(ps[i]) IN
         IF r.ok THEN DuplicatesLoop(ps, i + 1, EntryPush(map, r.contents, ps[i]))
         ELSE DuplicatesLoop(ps, i + 1, map)

get_duplicates(ps) ==
    SelectSeq(Values(DuplicatesLoop(ps, 1, <<>>)), LongerThanOne)

\* the bucketing loop of get_duplicates_hashed: key = (contents_hash, contents.len())
RECURSIVE CandidateDuplicatesLoop(_, _, _, _)
CandidateDuplicatesLoop(ps, h, i, map) ==
    IF i > Len(ps) THEN map
    ELSE LET r == fs_read(ps[i]) IN
         IF r.ok
         THEN CandidateDuplicatesLoop(ps, h, i + 1,
                  EntryPush(map, <<h[r.contents], r.contents.len>>, ps[i]))
         ELSE CandidateDuplicatesLoop(ps, h, i + 1, map)

\* .map(f).flatten() over a sequence of sequences
RECURSIVE Flatten(_)
Flatten(ss) == IF ss = <<>> THEN <<>> ELSE Head(ss) \o Flatten(Tail(ss))

\* mutant of get_duplicates_hashed: the buckets are returned as they are
get_duplicates_hashed_unresolved(ps, h) ==
    SelectSeq(Values(CandidateDuplicatesLoop(ps, h, 1, <<>>)), LongerThanOne)

get_duplicates_hashed(ps, h) ==
    LET candidates == SelectSeq(Values(CandidateDuplicatesLoop(ps, h, 1, <<>>)),
                                LongerThanOne)
    IN  Flatten([i \in 1..Len(candidates) |-> get_duplicates(candidates[i])])

(***************************************************************************)
(* get_fingerprint (src/copies.rs).  The key is a usize; it is kept as its *)
(* WORD_BYTES bytes, least significant first, which is exact here because  *)
(* every value OR-ed in is one byte shifted by a multiple of 8 bits.       *)
(***************************************************************************)
RECURSIVE BitOr(_, _)
BitOr(a, b) ==
    IF a = 0 THEN b
    ELSE IF b = 0 THEN a
    ELSE (IF a % 2 = 1 \/ b % 2 = 1 THEN 1 ELSE 0) + 2 * BitOr(a \div 2, b \div 2)

ZeroKey == [j \in 1..WORD_BYTES |-> 0]

\* i << 3
ShiftAmount(i) == i * 8

\* whether (c as usize) << sh overflows the shift: sh is not below the word width
ShiftOverflows(sh) == sh >= 8 * WORD_BYTES

\* key |= (c as usize) << sh, for sh a multiple of 8; a build without overflow
\* checks masks the shift amount to the word width (wrapping_shl)
OrShifted(key, c, sh) ==
    LET slot == ((sh % (8 * WORD_BYTES)) \div 8) + 1
    IN  [key EXCEPT ![slot] = BitOr(@, c)]

\* for (i, &c) in contents.iter().enumerate() { key |= (c as usize) << (i << 3); }
\* contents[i + 1] is the code's contents[i]
RECURSIVE PackLoop(_, _, _, _)
PackLoop(contents, i, key, checks) ==
    IF i >= Len(contents) THEN [tag |-> "ok", key |-> key]
    ELSE IF checks /\ ShiftOverflows(ShiftAmount(i)) THEN [tag |-> "panic"]
    ELSE PackLoop(contents, i + 1, OrShifted(key, contents[i + 1], ShiftAmount(i)), checks)

\* (len / 8).max(1)
SmallStride(len) == Max(len \div SMALL_PARTS, 1)

\* the offsets (0..len).step_by(stride) yields
SmallOffsets(len) ==
    LET stride == SmallStride(len)
        n == (len + stride - 1) \div stride
    IN  [k \in 1..n |-> (k - 1) * stride]

\* let read_size = 8 / steps;  let step = (len / steps) as i64;
ReadSize == SAMPLE_WIDTH \div STEPS
LargeStep(len) == len \div STEPS

\* file.read_exact(&mut buf) at position pos: fails unless read_size bytes are left
ReadExactOk(file, pos) == file.status = "ok" /\ pos + ReadSize <= file.content.len
ReadExactBytes(file, pos) == [j \in 1..ReadSize |-> ByteAt(file.content, pos + j - 1)]

\* mutant of SeekCurrent: the seek is taken from the start of the file
SeekFromStart(pos, step) == step

\* file.seek(SeekFrom::Current(step)) after the read; a seek past the end succeeds
SeekCurrent(pos, step) == pos + step

RECURSIVE LargeLoop(_, _, _, _)
LargeLoop(file, k, pos, contents) ==
    IF k >= STEPS THEN [ok |-> TRUE, contents |-> contents]
    ELSE IF ~ReadExactOk(file, pos) THEN [ok |-> FALSE]
    ELSE LargeLoop(file, k + 1,
                   SeekCurrent(pos + ReadSize, LargeStep(file.content.len)),
                   contents \o ReadExactBytes(file, pos))

FpErr == [tag |-> "err"]
FpOk(key, len) == [tag |-> "ok", fingerprint |-> <<key, len>>]
FpPanic == [tag |-> "panic"]

FpFinish(contents, len, checks) ==
    LET packed == PackLoop(contents, 0, ZeroKey, checks)
    IN  IF packed.tag = "panic" THEN FpPanic ELSE FpOk(packed.key, len)

\* get_fingerprint on the file a path names
FingerprintOf(file, checks) ==
    LET len == file.content.len
    IN  IF file.status = "missing" THEN FpErr
        ELSE IF len = 0 THEN FpOk(ZeroKey, 0)
        ELSE IF len <= PAGE_SIZE THEN
            IF file.status # "ok" THEN FpErr
            ELSE LET offs == SmallOffsets(len)
                 IN  FpFinish([k \in 1..Len(offs) |-> ByteAt(file.content, offs[k])],
                              len, checks)
        ELSE LET sampled == LargeLoop(file, 0, 0, <<>>)
             IN  IF sampled.ok THEN FpFinish(sampled.contents, len, checks) ELSE FpErr

get_fingerprint(p, checks) == FingerprintOf(fs[p], checks)

(***************************************************************************)
(* get_copies_hashed (src/copies.rs).                                      *)
(***************************************************************************)
\* the first loop: bucket the paths by fingerprint; a panic unwinds out of it
RECURSIVE CandidateCopiesLoop(_, _, _, _, _)
CandidateCopiesLoop(ps, checks, i, map, errors) ==
    IF i > Len(ps) THEN [tag |-> "ok", map |-> map, errors |-> errors]
    ELSE LET r == get_fingerprint(ps[i], checks) IN
         IF r.tag = "panic" THEN [tag |-> "panic"]
         ELSE IF r.tag = "ok"
         THEN CandidateCopiesLoop(ps, checks, i + 1,
                                  EntryPush(map, r.fingerprint, ps[i]), errors)
         ELSE CandidateCopiesLoop(ps, checks, i + 1, map, Append(errors, ps[i]))

\* the second loop: get_copies on every bucket, results and errors appended
RECURSIVE ResolveLoop(_, _, _, _)
ResolveLoop(groups, i, cs, errors) ==
    IF i > Len(groups) THEN Returned(cs, errors)
    ELSE LET r == get_copies(groups[i])
         IN  ResolveLoop(groups, i + 1, cs \o r.groups, errors \o r.errors)

\* mutant of get_copies_hashed: the buckets are returned as they are
get_copies_hashed_unresolved(ps, checks) ==
    LET candidate_copies == CandidateCopiesLoop(ps, checks, 1, <<>>, <<>>)
    IN  IF candidate_copies.tag = "panic" THEN Panicked
        ELSE Returned(Values(candidate_copies.map), candidate_copies.errors)

get_copies_hashed(ps, checks) ==
    LET candidate_copies == CandidateCopiesLoop(ps, checks, 1, <<>>, <<>>)
    IN  IF candidate_copies.tag = "panic" THEN Panicked
        ELSE ResolveLoop(Values(candidate_copies.map), 1, <<>>, candidate_copies.errors)

(***************************************************************************)
(* The driver: the four entry points, each called once on the same path    *)
(* list.  They share no state and the file system does not change, so the  *)
(* order of the calls is immaterial.  A panic in get_copies_hashed ends    *)
(* the program.                                                            *)
(***************************************************************************)
HashValues == {0, 1}

\* the contents DefaultHasher is asked to hash during get_duplicates_hashed(ps)
HashedContents(ps) == {fs[ps[i]].content : i \in {j \in 1..Len(ps) : Readable(ps[j])}}

\* the parts of the state a specification does not use stay as they are here
FpIdle ==
    /\ fp_file = File("missing", Empty)
    /\ fp_pc = "idle"
    /\ fp_len = 0
    /\ fp_pos = 0
    /\ fp_k = 0
    /\ fp_contents = <<>>
    /\ fp_i = 0
    /\ fp_key = ZeroKey
    /\ fp_result = NotCalled
    /\ fp_reads = <<>>
    /\ fp_sampled = <<>>
    /\ fp_bit_offsets = <<>>

CpIdle ==
    /\ cp_paths = <<>>
    /\ cp_pc = "idle"
    /\ cp_idx = 0
    /\ last_match = 0
    /\ cp_result = <<>>

EngineIdle ==
    /\ fs = [p \in PathNames |-> File("missing", Empty)]
    /\ paths = <<>>
    /\ pc = "idle"
    /\ copies = NotCalled
    /\ copies_hashed = NotCalled
    /\ duplicates = NotCalled
    /\ duplicates_hashed = NotCalled
    /\ hasher = <<>>

Init ==
    /\ fs \in [PathNames -> Files]
    /\ paths \in PathLists
    /\ pc = "start"
    /\ copies = NotCalled
    /\ copies_hashed = NotCalled
    /\ duplicates = NotCalled
    /\ duplicates_hashed = NotCalled
    /\ hasher = <<>>
    /\ overflow_checks = FALSE
    /\ FpIdle
    /\ CpIdle

CallGetCopies ==
    /\ pc = "start"
    /\ copies' = get_copies(paths)
    /\ pc' = "copies_done"
    /\ UNCHANGED <<fs, paths, copies_hashed, duplicates, duplicates_hashed,
                   hasher, overflow_checks>>
    /\ UNCHANGED <<fp_vars, cp_vars>>

CallGetDuplicates ==
    /\ pc = "copies_done"
    /\ duplicates' = ReturnedGroups(get_duplicates(paths))
    /\ pc' = "duplicates_done"
    /\ UNCHANGED <<fs, paths, copies, copies_hashed, duplicates_hashed,
                   hasher, overflow_checks>>
    /\ UNCHANGED <<fp_vars, cp_vars>>

\* The build profile is first observable here (nothing before this call can
\* overflow), so it is drawn here: with overflow checks a shift by the word
\* width or more panics, without them the shift amount wraps.
CallGetCopiesHashed ==
    /\ pc = "duplicates_done"
    /\ \E checks \in BOOLEAN :
          /\ overflow_checks' = checks
          /\ copies_hashed' = get_copies_hashed(paths, checks)
    /\ pc' = IF copies_hashed'.tag = "panic" THEN "panicked" ELSE "copies_hashed_done"
    /\ UNCHANGED <<fs, paths, copies, duplicates, duplicates_hashed, hasher>>
    /\ UNCHANGED <<fp_vars, cp_vars>>

\* DefaultHasher is any function of the contents: every one into HashValues is tried
CallGetDuplicatesHashed ==
    /\ pc = "copies_hashed_done"
    /\ \E h \in [HashedContents(paths) -> HashValues] :
          /\ hasher' = h
          /\ duplicates_hashed' = ReturnedGroups(get_duplicates_hashed(paths, h))
    /\ pc' = "done"
    /\ UNCHANGED <<fs, paths, copies, copies_hashed, duplicates, overflow_checks>>
    /\ UNCHANGED <<fp_vars, cp_vars>>

Next ==
    \/ CallGetCopies
    \/ CallGetDuplicates
    \/ CallGetCopiesHashed
    \/ CallGetDuplicatesHashed

Spec == Init /\ [][Next]_vars

(***************************************************************************)
(* SpecFingerprint: get_fingerprint(path) on one file, a statement at a    *)
(* time, built from the operators get_fingerprint above is built from.     *)
(***************************************************************************)
FpLengths == 0..(PAGE_SIZE + MaxLargeExtra)

\* the files get_fingerprint is run on: one of every length, every byte 255,
\* a path that does not open, and files that open but cannot be read
FpFiles == {File("ok", Bytes(n, 255, NoPatch)) : n \in FpLengths}
              \cup {File("missing", Empty)}
              \cup {File("unreadable", Bytes(n, 255, NoPatch)) : n \in {0, 9, PAGE_SIZE + 1}}

InitFingerprint ==
    /\ fp_file \in FpFiles
    /\ overflow_checks \in BOOLEAN
    /\ fp_pc = "open"
    /\ fp_len = 0
    /\ fp_pos = 0
    /\ fp_k = 0
    /\ fp_contents = <<>>
    /\ fp_i = 0
    /\ fp_key = ZeroKey
    /\ fp_result = NotCalled
    /\ fp_reads = <<>>
    /\ fp_sampled = <<>>
    /\ fp_bit_offsets = <<>>
    /\ EngineIdle
    /\ CpIdle

FpUnchangedOthers == UNCHANGED <<engine_vars, overflow_checks, cp_vars, fp_file>>

\* File::open(&path)?;  let len = ...;  if len == 0 { return Ok((0, 0)); }
FpOpen ==
    /\ fp_pc = "open"
    /\ IF fp_file.status = "missing"
       THEN fp_result' = FpErr /\ fp_pc' = "done" /\ fp_len' = fp_len
       ELSE /\ fp_len' = fp_file.content.len
            /\ IF fp_len' = 0
               THEN fp_result' = FpOk(ZeroKey, 0) /\ fp_pc' = "done"
               ELSE /\ fp_result' = fp_result
                    /\ fp_pc' = IF fp_len' <= PAGE_SIZE THEN "small" ELSE "large"
    /\ UNCHANGED <<fp_pos, fp_k, fp_contents, fp_i, fp_key, fp_reads, fp_sampled,
                   fp_bit_offsets>>
    /\ FpUnchangedOthers

\* let bytes = fs::read(&path)?;  for i in (0..len).step_by(..) { contents.push(bytes[i]); }
FpSmall ==
    /\ fp_pc = "small"
    /\ IF fp_file.status # "ok"
       THEN /\ fp_result' = FpErr /\ fp_pc' = "done"
            /\ UNCHANGED <<fp_contents, fp_sampled>>
       ELSE LET offs == SmallOffsets(fp_len)
            IN  /\ fp_contents' = [k \in 1..Len(offs) |-> ByteAt(fp_file.content, offs[k])]
                /\ fp_sampled' = offs
                /\ fp_pc' = "pack"
                /\ fp_result' = fp_result
    /\ UNCHANGED <<fp_len, fp_pos, fp_k, fp_i, fp_key, fp_reads, fp_bit_offsets>>
    /\ FpUnchangedOthers

\* file.read_exact(&mut buf)?;  for &b in buf.iter() { contents.push(b); }
FpReadExact ==
    /\ fp_pc = "large"
    /\ IF ReadExactOk(fp_file, fp_pos)
       THEN /\ fp_contents' = fp_contents \o ReadExactBytes(fp_file, fp_pos)
            /\ fp_reads' = Append(fp_reads, fp_pos)
            /\ fp_sampled' = fp_sampled \o [j \in 1..ReadSize |-> fp_pos + j - 1]
            /\ fp_pos' = fp_pos + ReadSize
            /\ fp_pc' = "seek"
            /\ fp_result' = fp_result
       ELSE /\ fp_result' = FpErr /\ fp_pc' = "done"
            /\ UNCHANGED <<fp_contents, fp_reads, fp_sampled, fp_pos>>
    /\ UNCHANGED <<fp_len, fp_k, fp_i, fp_key, fp_bit_offsets>>
    /\ FpUnchangedOthers

\* file.seek(std::io::SeekFrom::Current(step))?;  and the loop's next iteration
FpSeek ==
    /\ fp_pc = "seek"
    /\ fp_pos' = SeekCurrent(fp_pos, LargeStep(fp_len))
    /\ fp_k' = fp_k + 1
    /\ fp_pc' = IF fp_k' >= STEPS THEN "pack" ELSE "large"
    /\ UNCHANGED <<fp_len, fp_contents, fp_i, fp_key, fp_result, fp_reads,
                   fp_sampled, fp_bit_offsets>>
    /\ FpUnchangedOthers

\* one iteration of: key |= (c as usize) << (i << 3);
FpPackStep ==
    /\ fp_pc = "pack"
    /\ fp_i < Len(fp_contents)
    /\ IF overflow_checks /\ ShiftOverflows(ShiftAmount(fp_i))
       THEN /\ fp_result' = FpPanic /\ fp_pc' = "done"
            /\ UNCHANGED <<fp_i, fp_key, fp_bit_offsets>>
       ELSE /\ fp_key' = OrShifted(fp_key, fp_contents[fp_i + 1], ShiftAmount(fp_i))
            /\ fp_bit_offsets' =
                  Append(fp_bit_offsets, ShiftAmount(fp_i) % (8 * WORD_BYTES))
            /\ fp_i' = fp_i + 1
            /\ UNCHANGED <<fp_result, fp_pc>>
    /\ UNCHANGED <<fp_len, fp_pos, fp_k, fp_contents, fp_reads, fp_sampled>>
    /\ FpUnchangedOthers

\* Ok((key, len))
FpReturn ==
    /\ fp_pc = "pack"
    /\ fp_i >= Len(fp_contents)
    /\ fp_result' = FpOk(fp_key, fp_len)
    /\ fp_pc' = "done"
    /\ UNCHANGED <<fp_len, fp_pos, fp_k, fp_contents, fp_i, fp_key, fp_reads,
                   fp_sampled, fp_bit_offsets>>
    /\ FpUnchangedOthers

NextFingerprint ==
    \/ FpOpen
    \/ FpSmall
    \/ FpReadExact
    \/ FpSeek
    \/ FpPackStep
    \/ FpReturn

SpecFingerprint == InitFingerprint /\ [][NextFingerprint]_vars

(***************************************************************************)
(* SpecPrefix: get_common_prefix (src/paths.rs).  A path is the sequence   *)
(* of its components, which is what components() yields and collect()      *)
(* builds a PathBuf from.                                                  *)
(***************************************************************************)
Components == {"x", "y"}

PrefixPaths == UNION {[1..n -> Components] : n \in 0..MaxDepth}

PrefixLists == UNION {[1..n -> PrefixPaths] : n \in 0..MaxList}

Min(a, b) == IF a <= b THEN a ELSE b

\* base_path.components().take(n).collect()
Take(path, n) == SubSeq(path, 1, Min(n, Len(path)))

\* the inner loop: the first index i of zip(base, path) with
\* i >= last_match || a != b becomes last_match; with none it is kept
InnerLoop(base, path, lm) ==
    LET hits == {i \in 0..(Min(Len(base), Len(path)) - 1) :
                    i >= lm \/ base[i + 1] # path[i + 1]}
    IN  IF hits = {} THEN lm
        ELSE CHOOSE i \in hits : \A j \in hits : i <= j

RECURSIVE PrefixLoop(_, _, _)
PrefixLoop(ps, idx, lm) ==
    IF idx > Len(ps) THEN lm
    ELSE PrefixLoop(ps, idx + 1, InnerLoop(ps[1], ps[idx], lm))

get_common_prefix(ps) ==
    IF Len(ps) = 0 THEN <<>>
    ELSE Take(ps[1], PrefixLoop(ps, 2, Len(ps[1])))

InitPrefix ==
    /\ cp_paths \in PrefixLists
    /\ cp_pc = "start"
    /\ cp_idx = 0
    /\ last_match = 0
    /\ cp_result = <<>>
    /\ EngineIdle
    /\ overflow_checks = FALSE
    /\ FpIdle

CpUnchangedOthers == UNCHANGED <<engine_vars, overflow_checks, fp_vars, cp_paths>>

\* if paths.len() == 0 { return PathBuf::new(); }  let mut last_match = ...;
CpStart ==
    /\ cp_pc = "start"
    /\ IF Len(cp_paths) = 0
       THEN cp_result' = <<>> /\ cp_pc' = "done" /\ UNCHANGED <<cp_idx, last_match>>
       ELSE /\ last_match' = Len(cp_paths[1])
            /\ cp_idx' = 2
            /\ cp_pc' = "loop"
            /\ cp_result' = cp_result
    /\ CpUnchangedOthers

\* one iteration of: for path in paths.iter().skip(1) { ... }
CpCompare ==
    /\ cp_pc = "loop"
    /\ cp_idx <= Len(cp_paths)
    /\ last_match' = InnerLoop(cp_paths[1], cp_paths[cp_idx], last_match)
    /\ cp_idx' = cp_idx + 1
    /\ UNCHANGED <<cp_pc, cp_result>>
    /\ CpUnchangedOthers

\* base_path.components().take(last_match).collect()
CpReturn ==
    /\ cp_pc = "loop"
    /\ cp_idx > Len(cp_paths)
    /\ cp_result' = Take(cp_paths[1], last_match)
    /\ cp_pc' = "done"
    /\ UNCHANGED <<cp_idx, last_match>>
    /\ CpUnchangedOthers

NextPrefix ==
    \/ CpStart
    \/ CpCompare
    \/ CpReturn

SpecPrefix == InitPrefix /\ [][NextPrefix]_vars

(***************************************************************************)
(* Vocabulary of the properties.                                           *)
(***************************************************************************)
Count(seq, p) == Cardinality({i \in 1..Len(seq) : seq[i] = p})
Range(seq) == {seq[i] : i \in 1..Len(seq)}
Members(groups) == Flatten(groups)
\* a list of groups as a set of sets, order of groups and of members ignored
Partition(groups) == {Range(groups[i]) : i \in 1..Len(groups)}
\* two groups with the same members, order ignored
SameGroup(g, h) == \A p \in PathNames : Count(g, p) = Count(h, p)
GroupsHolding(groups, p) == {i \in 1..Len(groups) : p \in Range(groups[i])}
ReadablePaths(ps) == {p \in Range(ps) : Readable(p)}
\* ps with every occurrence of p left out
RECURSIVE Without(_, _)
Without(ps, p) ==
    IF ps = <<>> THEN <<>>
    ELSE IF Head(ps) = p THEN Without(Tail(ps), p)
    ELSE <<Head(ps)>> \o Without(Tail(ps), p)

\* the results get_copies and get_copies_hashed have returned so far
CopiesReturned == {r \in {copies, copies_hashed} : r.tag = "returned"}

\* two readable input paths of different contents with the same fingerprint
FingerprintCollision ==
    \E p, q \in ReadablePaths(paths) :
        /\ fs[p].content # fs[q].content
        /\ get_fingerprint(p, overflow_checks).tag = "ok"
        /\ get_fingerprint(p, overflow_checks) = get_fingerprint(q, overflow_checks)

\* C1: in every result get_copies or get_copies_hashed returns, two readable
\* paths of the same group have identical contents and two readable paths of
\* different groups have different contents.
C1_Equivalence ==
    \A r \in CopiesReturned :
        \A i, j \in 1..Len(r.groups) :
            \A x \in Range(r.groups[i]), y \in Range(r.groups[j]) :
                (Readable(x) /\ Readable(y)) =>
                    ((i = j) <=> (fs[x].content = fs[y].content))

\* get_copies_hashed returned after its resolver split a fingerprint bucket
\* that held both a pair of copies and a file of different contents
C1_Witness ==
    /\ copies_hashed.tag = "returned"
    /\ FingerprintCollision
    /\ \E i \in 1..Len(copies_hashed.groups) :
          Cardinality(Range(copies_hashed.groups[i])) >= 2
    /\ Len(copies_hashed.groups) >= 2

\* C2: the paths in the groups of get_copies / get_copies_hashed are exactly
\* the input paths that can be read, and no path is in two groups.
C2_Partition ==
    \A r \in CopiesReturned :
        /\ Range(Members(r.groups)) = ReadablePaths(paths)
        /\ \A p \in PathNames : Cardinality(GroupsHolding(r.groups, p)) <= 1

\* C3: get_copies(paths) and get_copies_hashed(paths) return the same
\* partition of the paths, as a set of sets.
C3_Consistency ==
    (copies.tag = "returned" /\ copies_hashed.tag = "returned") =>
        Partition(copies.groups) = Partition(copies_hashed.groups)

\* C4: every group of get_duplicates(paths) has at least 2 members and is a
\* group of get_copies(paths), and every group of get_copies(paths) with at
\* least 2 members is a group of get_duplicates(paths).
C4_DuplicatesAreCopies ==
    (copies.tag = "returned" /\ duplicates.tag = "returned") =>
        /\ \A i \in 1..Len(duplicates.groups) :
              /\ Len(duplicates.groups[i]) >= 2
              /\ \E j \in 1..Len(copies.groups) :
                    SameGroup(duplicates.groups[i], copies.groups[j])
        /\ \A j \in 1..Len(copies.groups) :
              Len(copies.groups[j]) >= 2 =>
                  \E i \in 1..Len(duplicates.groups) :
                      SameGroup(duplicates.groups[i], copies.groups[j])

\* get_duplicates returned a group while get_copies also returned a singleton
C4_Witness ==
    /\ copies.tag = "returned" /\ duplicates.tag = "returned"
    /\ \E i \in 1..Len(duplicates.groups) : Cardinality(Range(duplicates.groups[i])) >= 2
    /\ \E j \in 1..Len(copies.groups) : Len(copies.groups[j]) = 1

\* r, a result for the list paths, surfaces the unreadable path p: one error
\* entry per occurrence, p in no group, the groups those of rest, the result
\* for the list without p
Surfaced(r, p, rest) ==
    /\ Count(r.errors, p) = Count(paths, p)
    /\ GroupsHolding(r.groups, p) = {}
    /\ rest.tag = "returned"
    /\ Partition(r.groups) = Partition(rest.groups)

\* C5: a call of get_copies / get_copies_hashed is not aborted, and a path that
\* cannot be read has one error entry per occurrence, is in no group, and
\* leaves the other paths grouped as if it had not been in the input.
C5_ErrorSurfacing ==
    /\ copies # NotCalled =>
          /\ copies.tag = "returned"
          /\ \A p \in Range(paths) \ ReadablePaths(paths) :
                Surfaced(copies, p, get_copies(Without(paths, p)))
    /\ copies_hashed # NotCalled =>
          /\ copies_hashed.tag = "returned"
          /\ \A p \in Range(paths) \ ReadablePaths(paths) :
                Surfaced(copies_hashed, p,
                         get_copies_hashed(Without(paths, p), overflow_checks))

\* two readable input paths of different contents with the same (hash, length) key
HashCollision ==
    \E p, q \in ReadablePaths(paths) :
        /\ fs[p].content # fs[q].content
        /\ fs[p].content.len = fs[q].content.len
        /\ hasher[fs[p].content] = hasher[fs[q].content]

\* C6: whatever the hash function, get_duplicates_hashed(paths) returns the
\* groups of get_duplicates(paths); no group holds two files of different
\* contents; all readable files of one contents, when there are 2 or more of
\* them, are together in one group.
C6_HashedDuplicates ==
    (duplicates.tag = "returned" /\ duplicates_hashed.tag = "returned") =>
        LET dh == duplicates_hashed.groups
            d == duplicates.groups
        IN  /\ Len(dh) = Len(d)
            /\ \A i \in 1..Len(dh) : \E j \in 1..Len(d) : SameGroup(dh[i], d[j])
            /\ \A j \in 1..Len(d) : \E i \in 1..Len(dh) : SameGroup(dh[i], d[j])
            /\ \A i \in 1..Len(dh) : \A x, y \in Range(dh[i]) :
                  fs[x].content = fs[y].content
            /\ \A c \in Contents :
                  LET same == {k \in 1..Len(paths) :
                                  Readable(paths[k]) /\ fs[paths[k]].content = c}
                  IN  Cardinality(same) >= 2 =>
                          \E i \in 1..Len(dh) :
                              \A p \in PathNames :
                                  Count(dh[i], p) =
                                      Cardinality({k \in same : paths[k] = p})

\* get_duplicates_hashed returned a group out of a bucket in which two files of
\* different contents had the same key
C6_Witness ==
    /\ duplicates_hashed.tag = "returned"
    /\ HashCollision
    /\ \E i \in 1..Len(duplicates_hashed.groups) :
          Cardinality(Range(duplicates_hashed.groups[i])) >= 2

FpAgrees ==
    fp_pc = "done" => fp_result = FingerprintOf(fp_file, overflow_checks)

\* C8: for a file of 1 <= L <= 4096 bytes the sampled offsets are 0, s, 2s, ...
\* with s = max(1, L/8), at most 8 bytes are taken, and byte i is OR-ed in at
\* bit offset 8*i, below the 64 bits of the word, so no shift overflows.
C8_SmallSampling ==
    (fp_file.status = "ok" /\ fp_len >= 1 /\ fp_len <= 4096
        /\ fp_pc \in {"pack", "done"}) =>
        LET s == Max(1, fp_len \div 8)
        IN  /\ \A k \in 1..Len(fp_sampled) : fp_sampled[k] = (k - 1) * s
            /\ Len(fp_sampled) * s >= fp_len
            /\ Len(fp_contents) <= 8
            /\ fp_result.tag # "panic"
            /\ \A k \in 1..Len(fp_bit_offsets) :
                  fp_bit_offsets[k] = 8 * (k - 1) /\ fp_bit_offsets[k] < 64

IsPrefix(q, path) == Len(q) <= Len(path) /\ SubSeq(path, 1, Len(q)) = q

CommonPrefixes(ps) == {q \in PrefixPaths : \A i \in 1..Len(ps) : IsPrefix(q, ps[i])}

\* ps in the order perm gives
Reordered(ps, perm) == [i \in 1..Len(ps) |-> ps[perm[i]]]

\* C7: the result is the longest sequence of components that is a prefix of
\* every input path, the same for every ordering of the input, and the empty
\* path for an empty input.
C7_CommonPrefix ==
    cp_pc = "done" =>
        /\ Len(cp_paths) = 0 => cp_result = <<>>
        /\ Len(cp_paths) > 0 =>
              /\ cp_result \in CommonPrefixes(cp_paths)
              /\ \A q \in CommonPrefixes(cp_paths) : Len(q) <= Len(cp_result)
        /\ \A perm \in Permutations(1..Len(cp_paths)) :
              get_common_prefix(Reordered(cp_paths, perm)) = cp_result

\* the step-by-step run returns what the operator computes
CpAgrees ==
    cp_pc = "done" => cp_result = get_common_prefix(cp_paths)
====
